---- MODULE Spec2Model ----
(***************************************************************************)
(* Model of the HTML error-correcting engine of src/html_compiler.py:      *)
(* the regular-expression tokenizer, the open-tag stack machine with its   *)
(* repairs, the corrected-output buffer, and the compile, validate_html    *)
(* and format_html entry points of HTMLCompiler.                           *)
(*                                                                         *)
(* Text is a sequence of one-character strings.  Positions (pos, start,    *)
(* end) are 0-based offsets as in the source.                              *)
(***************************************************************************)
EXTENDS Integers, Sequences, FiniteSets, TLC

(***************************************************************************)
(* Bounds and the input alphabet.                                          *)
(***************************************************************************)

\* An input text of compile is the concatenation of at most MaxPieces pieces.
MaxPieces == 4

\* An input text of validate_html is the concatenation of at most
\* MaxValidatePieces pieces.
MaxValidatePieces == 3

\* Characters matched by \s of the tag pattern (and removed by str.strip).
WhiteSpace == {"\n"}

\* Characters matched by \w of the tag pattern.
WordChars == {"a", "b"}

\* Tag names the inputs are written with.
TagNames == { <<"a">>, <<"b">> }

\* "<name>" and "</name>" as written in an input.
StartTagText(name) == <<"<">> \o name \o <<">">>

EndTagText(name) == <<"<", "/">> \o name \o <<">">>

StartPieces == { StartTagText(n) : n \in TagNames }

EndPieces == { EndTagText(n) : n \in TagNames }

\* A self-closing tag with white space (a newline) between "/" and ">".
SelfClosingPieces == { <<"<", "b", "/", "\n", ">">> }

\* Text runs that contain no "<".
TextPieces == { <<"a">>, <<"\n">>, <<"/">> }

\* A lone "<", from which malformed and unusual tags are assembled.
StrayPieces == { <<"<">> }

Pieces == StartPieces \cup EndPieces \cup SelfClosingPieces \cup TextPieces \cup StrayPieces

(***************************************************************************)
(* Strings.                                                                *)
(***************************************************************************)

\* s[i] of the source (0-based).
At(s, i) == s[i + 1]

\* s[i:j] of the source.
Slice(s, i, j) == IF j <= i THEN <<>> ELSE SubSeq(s, i + 1, j)

\* "".join(frags)
RECURSIVE Join(_)
Join(frags) == IF frags = <<>> THEN <<>> ELSE Head(frags) \o Join(Tail(frags))

\* data.count('\n')
RECURSIVE CountNewlines(_)
CountNewlines(data) ==
    IF data = <<>> THEN 0
    ELSE (IF Head(data) = "\n" THEN 1 ELSE 0) + CountNewlines(Tail(data))

\* rest.strip()
RECURSIVE RStrip(_)
RStrip(s) ==
    IF s = <<>> THEN s
    ELSE IF s[Len(s)] \in WhiteSpace THEN RStrip(SubSeq(s, 1, Len(s) - 1))
    ELSE s

RECURSIVE LStrip(_)
LStrip(s) ==
    IF s = <<>> THEN s
    ELSE IF Head(s) \in WhiteSpace THEN LStrip(Tail(s))
    ELSE s

Strip(s) == LStrip(RStrip(s))

\* s.endswith('/')
EndsWithSlash(s) == (Len(s) > 0) /\ (s[Len(s)] = "/")

(***************************************************************************)
(* The tag pattern: "<", white space, an optional "/" (group 1), one or    *)
(* more word characters (group 2), any characters but ">" (group 3), ">".  *)
(***************************************************************************)

\* First offset j >= i at which s has no character of class cls (or Len(s)).
RECURSIVE SkipClass(_, _, _)
SkipClass(s, i, cls) ==
    IF i < Len(s) /\ At(s, i) \in cls THEN SkipClass(s, i + 1, cls) ELSE i

\* First offset j >= i at which s has ">" (or Len(s) if there is none).
RECURSIVE FindGt(_, _)
FindGt(s, i) ==
    IF i < Len(s) /\ At(s, i) /= ">" THEN FindGt(s, i + 1) ELSE i

\* SlashPos for a pattern without the white space after "<".
SlashPosNoSpace(s, i) == i + 1

\* Offset just after the white space that follows the "<" at offset i.
SlashPos(s, i) == SkipClass(s, i + 1, WhiteSpace)

\* Group 1 is "/" (and not empty) in an attempt to match at offset i.
HasSlash(s, i) == SlashPos(s, i) < Len(s) /\ At(s, SlashPos(s, i)) = "/"

\* Span of group 2 in an attempt to match at offset i.
NameStart(s, i) == IF HasSlash(s, i) THEN SlashPos(s, i) + 1 ELSE SlashPos(s, i)

NameEnd(s, i) == SkipClass(s, NameStart(s, i), WordChars)

\* The pattern matches at offset i.
MatchesAt(s, i) ==
    /\ i < Len(s)
    /\ At(s, i) = "<"
    /\ NameEnd(s, i) > NameStart(s, i)
    /\ FindGt(s, NameEnd(s, i)) < Len(s)

\* The match object of a match at offset i: span and groups 0..3.
MatchObject(s, i) ==
    LET ns == NameStart(s, i)
        ne == NameEnd(s, i)
        gt == FindGt(s, ne)
    IN  [ start         |-> i,
          end           |-> gt + 1,
          full_tag      |-> Slice(s, i, gt + 1),
          closing_slash |-> IF HasSlash(s, i) THEN <<"/">> ELSE <<>>,
          tag_name      |-> Slice(s, ns, ne),
          rest          |-> Slice(s, ne, gt) ]

\* The loop variable before the first iteration.
NoMatch ==
    [ start |-> -1, end |-> -1, full_tag |-> <<>>, closing_slash |-> <<>>,
      tag_name |-> <<>>, rest |-> <<>> ]

\* Offset of the next match that finditer yields at or after pos, or -1.
RECURSIVE SearchFrom(_, _)
SearchFrom(s, pos) ==
    IF pos >= Len(s) THEN -1
    ELSE IF MatchesAt(s, pos) THEN pos
    ELSE SearchFrom(s, pos + 1)

(***************************************************************************)
(* HTMLErrorCorrector                                                      *)
(***************************************************************************)

\* HTMLErrorCorrector.__init__
NewCorrector ==
    [ errors         |-> <<>>,
      corrected_html |-> <<>>,
      tag_stack      |-> <<>>,
      line_number    |-> 1 ]

\* The three error dictionaries that parse appends.
UnmatchedCloseError(line, tag_name) ==
    [ line |-> line, type |-> "error",
      message |-> [ kind |-> "UnmatchedClose", args |-> <<tag_name>> ] ]

MismatchError(line, last_tag, tag_name) ==
    [ line |-> line, type |-> "error",
      message |-> [ kind |-> "Mismatch", args |-> <<last_tag, tag_name>> ] ]

UnclosedTagError(line, tag) ==
    [ line |-> line, type |-> "error",
      message |-> [ kind |-> "UnclosedTag", args |-> <<tag>> ] ]

\* f"</{tag}>"
ClosingTag(tag) == <<"<", "/">> \o tag \o <<">">>

\* Text between the previous tag and the match: appended, lines counted.
ProcessData(p, data) ==
    IF data /= <<>>
    THEN [p EXCEPT !.corrected_html = Append(@, data),
                   !.line_number = @ + CountNewlines(data)]
    ELSE p

\* IsSelfClosing without the strip: rest.endswith('/').
IsSelfClosingNoStrip(m) == m.closing_slash = <<>> /\ EndsWithSlash(m.rest)

\* not closing_slash and rest.strip().endswith('/')
IsSelfClosing(m) == m.closing_slash = <<>> /\ EndsWithSlash(Strip(m.rest))

\* SelfClosingTag that advances the line counter by the newlines of the tag.
SelfClosingTagCounted(p, m) ==
    [p EXCEPT !.corrected_html = Append(@, m.full_tag),
              !.line_number = @ + CountNewlines(m.full_tag)]

\* Self-closing tag: simply added.
SelfClosingTag(p, m) ==
    [p EXCEPT !.corrected_html = Append(@, m.full_tag)]

\* Start tag: added and pushed with the current line.
StartTag(p, m) ==
    [p EXCEPT !.corrected_html = Append(@, m.full_tag),
              !.tag_stack = Append(@, <<m.tag_name, p.line_number>>)]

\* UnmatchedClose that reports the end tag but leaves it out of the output.
UnmatchedCloseDropped(p, m) ==
    [p EXCEPT !.errors = Append(@, UnmatchedCloseError(p.line_number, m.tag_name))]

\* UnmatchedClose that repairs by putting the missing start tag in front of
\* the output.
UnmatchedCloseRepaired(p, m) ==
    [p EXCEPT !.errors =
                  Append(@, UnmatchedCloseError(p.line_number, m.tag_name)),
              !.corrected_html =
                  <<StartTagText(m.tag_name)>> \o @ \o <<m.full_tag>>]

\* End tag on an empty stack.
UnmatchedClose(p, m) ==
    [p EXCEPT !.errors = Append(@, UnmatchedCloseError(p.line_number, m.tag_name)),
              !.corrected_html = Append(@, m.full_tag)]

\* tag_stack.pop()
Pop(stack) == SubSeq(stack, 1, Len(stack) - 1)

\* tag_stack[-1]
Top(stack) == stack[Len(stack)]

\* MismatchedClose that reopens the name of the end tag on the stack.
MismatchedClosePush(p, m) ==
    LET last_tag == Top(p.tag_stack)[1]
    IN  [p EXCEPT !.errors = Append(@, MismatchError(p.line_number, last_tag, m.tag_name)),
                  !.corrected_html = Append(Append(@, ClosingTag(last_tag)), m.full_tag),
                  !.tag_stack = Append(Pop(@), <<m.tag_name, p.line_number>>)]

\* End tag whose name differs from the top of the stack.
MismatchedClose(p, m) ==
    LET last_tag == Top(p.tag_stack)[1]
    IN  [p EXCEPT !.errors = Append(@, MismatchError(p.line_number, last_tag, m.tag_name)),
                  !.corrected_html = Append(Append(@, ClosingTag(last_tag)), m.full_tag),
                  !.tag_stack = Pop(@)]

\* CorrectClose that leaves the entry on the stack.
CorrectCloseNoPop(p, m) ==
    [p EXCEPT !.corrected_html = Append(@, m.full_tag)]

\* End tag whose name equals the top of the stack.
CorrectClose(p, m) ==
    [p EXCEPT !.corrected_html = Append(@, m.full_tag),
              !.tag_stack = Pop(@)]

\* The body of the loop after the text has been processed.
ProcessTag(p, m) ==
    IF m.closing_slash = <<>>
    THEN IF IsSelfClosing(m) THEN SelfClosingTag(p, m) ELSE StartTag(p, m)
    ELSE IF p.tag_stack = <<>> THEN UnmatchedClose(p, m)
    ELSE IF Top(p.tag_stack)[1] /= m.tag_name THEN MismatchedClose(p, m)
    ELSE CorrectClose(p, m)

\* RemainingData that forgets the text after the last tag.
RemainingDataDropped(p, data) == p

\* Text after the last tag: appended; the line counter is not advanced.
RemainingData(p, data) ==
    IF data /= <<>>
    THEN [p EXCEPT !.corrected_html = Append(@, data)]
    ELSE p

\* CloseUnclosed that takes the oldest entry (pop(0)) instead of the newest.
CloseUnclosedOldestFirst(p) ==
    LET tag == Head(p.tag_stack)[1]
    IN  [p EXCEPT !.tag_stack = Tail(@),
                  !.corrected_html = Append(@, ClosingTag(tag)),
                  !.errors = Append(@, UnclosedTagError(p.line_number, tag))]

\* CloseUnclosed that reads the top entry (tag_stack[-1]) and never pops it.
CloseUnclosedNoPop(p) ==
    LET tag == Top(p.tag_stack)[1]
    IN  [p EXCEPT !.corrected_html = Append(@, ClosingTag(tag)),
                  !.errors = Append(@, UnclosedTagError(p.line_number, tag))]

\* CloseUnclosed that stamps the error with the line the tag was opened on.
CloseUnclosedOpenedLine(p) ==
    LET tag == Top(p.tag_stack)[1]
        tag_line == Top(p.tag_stack)[2]
    IN  [p EXCEPT !.tag_stack = Pop(@),
                  !.corrected_html = Append(@, ClosingTag(tag)),
                  !.errors = Append(@, UnclosedTagError(tag_line, tag))]

\* One iteration of the loop that closes the unclosed tags.
CloseUnclosed(p) ==
    LET tag == Top(p.tag_stack)[1]
    IN  [p EXCEPT !.tag_stack = Pop(@),
                  !.corrected_html = Append(@, ClosingTag(tag)),
                  !.errors = Append(@, UnclosedTagError(p.line_number, tag))]

(***************************************************************************)
(* parse and compile as functions of the text.                             *)
(***************************************************************************)

\* The tag loop of parse from offset pos on, and the text after the last tag.
RECURSIVE ParseLoop(_, _, _)
ParseLoop(p, s, from) ==
    LET i == SearchFrom(s, from)
    IN  IF i = -1 THEN RemainingData(p, Slice(s, from, Len(s)))
        ELSE LET m == MatchObject(s, i)
             IN  ParseLoop(ProcessTag(ProcessData(p, Slice(s, from, m.start)), m), s, m.end)

\* The match objects that finditer yields from offset from on.
RECURSIVE FindAll(_, _)
FindAll(s, from) ==
    LET i == SearchFrom(s, from)
    IN  IF i = -1 THEN <<>>
        ELSE <<MatchObject(s, i)>> \o FindAll(s, MatchObject(s, i).end)

\* The loop that closes the unclosed tags.
RECURSIVE CloseAllUnclosed(_)
CloseAllUnclosed(p) ==
    IF p.tag_stack = <<>> THEN p ELSE CloseAllUnclosed(CloseUnclosed(p))

\* The dictionary that compile returns for a corrector that has parsed.
CompileResult(p) ==
    [ corrected_html |-> Join(p.corrected_html), errors |-> p.errors ]

\* HTMLCompiler.compile(text)
CompileOf(text) == CompileResult(CloseAllUnclosed(ParseLoop(NewCorrector, text, 0)))

\* NoErrors that accepts every result (len(...) >= 0).
NoErrorsAlways(res) == Len(res.errors) >= 0

\* len(result['errors']) == 0
NoErrors(res) == Len(res.errors) = 0

(***************************************************************************)
(* Inputs.                                                                 *)
(***************************************************************************)

PieceSeqs == UNION { [1..n -> Pieces] : n \in 0..MaxPieces }

Inputs == { Join(ps) : ps \in PieceSeqs }

ValidateInputs ==
    { Join(ps) : ps \in UNION { [1..n -> Pieces] : n \in 0..MaxValidatePieces } }

(***************************************************************************)
(* The state machine.                                                      *)
(***************************************************************************)

VARIABLES
    parser,         \* HTMLCompiler.parser, an HTMLErrorCorrector
    html_content,   \* the argument of the running call
    pos,            \* parse: end of the last tag processed
    match,          \* parse: the loop variable
    pc,             \* position of the running call
    call,           \* entry point of the running call
    result,         \* the dictionary compile returned
    valid,          \* the value validate_html returned
    previous,       \* the dictionary an earlier compile returned to the caller
    previous_live,  \* previous['errors'] is the error list of the corrector
                    \* that self.parser refers to now (the same list object)
    formatted       \* the lines format_html returned

vars == <<parser, html_content, pos, match, pc, call, result, valid,
          previous, previous_live, formatted>>

\* What the caller of the running call holds from earlier calls.
caller == <<previous, previous_live, formatted>>

\* HTMLCompiler.__init__
Init ==
    /\ parser = NewCorrector
    /\ html_content = <<>>
    /\ pos = 0
    /\ match = NoMatch
    /\ pc = "idle"
    /\ call = "none"
    /\ result = [ corrected_html |-> <<>>, errors |-> <<>> ]
    /\ valid = FALSE
    /\ previous = [ corrected_html |-> <<>>, errors |-> <<>> ]
    /\ previous_live = FALSE
    /\ formatted = <<>>

\* EnterCompile without line 102: parse runs on the corrector of the earlier
\* call, whose error list the dictionary returned earlier still refers to.
EnterCompileReuse(text, entry) ==
    /\ parser' = parser
    /\ html_content' = text
    /\ pos' = 0
    /\ call' = entry
    /\ pc' = "scan"
    /\ previous' = result
    /\ previous_live' = TRUE
    /\ UNCHANGED <<match, result, valid, formatted>>

\* compile(text) is entered: a new corrector, and parse starts.  The
\* dictionary returned earlier stays with the caller; its error list belongs
\* to the corrector that self.parser no longer refers to.
EnterCompile(text, entry) ==
    /\ parser' = NewCorrector
    /\ html_content' = text
    /\ pos' = 0
    /\ call' = entry
    /\ pc' = "scan"
    /\ previous' = result
    /\ previous_live' = FALSE
    /\ UNCHANGED <<match, result, valid, formatted>>

Compile ==
    /\ pc = "idle"
    /\ \E text \in Inputs : EnterCompile(text, "compile")

ValidateHtml ==
    /\ pc = "idle"
    /\ \E text \in ValidateInputs : EnterCompile(text, "validate_html")

\* The loop finds the next tag and processes the text before it.
NextTag ==
    /\ pc = "scan"
    /\ SearchFrom(html_content, pos) /= -1
    /\ LET m == MatchObject(html_content, SearchFrom(html_content, pos))
       IN  /\ parser' = ProcessData(parser, Slice(html_content, pos, m.start))
           /\ match' = m
    /\ pc' = "tag"
    /\ UNCHANGED <<html_content, pos, call, result, valid, caller>>

\* The branch conditions of the loop body.
IsEndTag(m) == m.closing_slash /= <<>>

IsStartTag(m) == ~IsEndTag(m) /\ ~IsSelfClosing(m)

IsUnmatchedClose(p, m) == IsEndTag(m) /\ p.tag_stack = <<>>

IsMismatch(p, m) ==
    IsEndTag(m) /\ p.tag_stack /= <<>> /\ Top(p.tag_stack)[1] /= m.tag_name

IsCorrectClose(p, m) ==
    IsEndTag(m) /\ p.tag_stack /= <<>> /\ Top(p.tag_stack)[1] = m.tag_name

\* The end of an iteration: the corrector as the branch left it, pos = end.
EndIteration(p) ==
    /\ parser' = p
    /\ pos' = match.end
    /\ pc' = "scan"
    /\ UNCHANGED <<html_content, match, call, result, valid, caller>>

HandleSelfClosing ==
    /\ pc = "tag"
    /\ IsSelfClosing(match)
    /\ EndIteration(SelfClosingTag(parser, match))

HandleStartTag ==
    /\ pc = "tag"
    /\ IsStartTag(match)
    /\ EndIteration(StartTag(parser, match))

HandleUnmatchedClose ==
    /\ pc = "tag"
    /\ IsUnmatchedClose(parser, match)
    /\ EndIteration(UnmatchedClose(parser, match))

HandleMismatch ==
    /\ pc = "tag"
    /\ IsMismatch(parser, match)
    /\ EndIteration(MismatchedClose(parser, match))

HandleCorrectClose ==
    /\ pc = "tag"
    /\ IsCorrectClose(parser, match)
    /\ EndIteration(CorrectClose(parser, match))

\* HandleRemaining with the closing loop run before the text after the last
\* tag is appended.
HandleRemainingAfterFlush ==
    /\ pc = "scan"
    /\ SearchFrom(html_content, pos) = -1
    /\ parser' = RemainingData(CloseAllUnclosed(parser),
                               Slice(html_content, pos, Len(html_content)))
    /\ pc' = "flush"
    /\ UNCHANGED <<html_content, pos, match, call, result, valid, caller>>

\* No tag is left: the text after the last tag.
HandleRemaining ==
    /\ pc = "scan"
    /\ SearchFrom(html_content, pos) = -1
    /\ parser' = RemainingData(parser, Slice(html_content, pos, Len(html_content)))
    /\ pc' = "flush"
    /\ UNCHANGED <<html_content, pos, match, call, result, valid, caller>>

\* One iteration of the closing loop.
FlushStep ==
    /\ pc = "flush"
    /\ parser.tag_stack /= <<>>
    /\ parser' = CloseUnclosed(parser)
    /\ UNCHANGED <<html_content, pos, match, pc, call, result, valid, caller>>

\* parse returns and compile builds its result.
CompileReturn ==
    /\ pc = "flush"
    /\ parser.tag_stack = <<>>
    /\ result' = CompileResult(parser)
    /\ pc' = IF call = "validate_html" THEN "validate" ELSE "done"
    /\ UNCHANGED <<parser, html_content, pos, match, call, valid, caller>>

\* validate_html returns.
ValidateReturn ==
    /\ pc = "validate"
    /\ valid' = NoErrors(result)
    /\ pc' = "done"
    /\ UNCHANGED <<parser, html_content, pos, match, call, result, caller>>

Next ==
    \/ Compile
    \/ ValidateHtml
    \/ NextTag
    \/ HandleSelfClosing
    \/ HandleStartTag
    \/ HandleUnmatchedClose
    \/ HandleMismatch
    \/ HandleCorrectClose
    \/ HandleRemaining
    \/ FlushStep
    \/ CompileReturn
    \/ ValidateReturn

Spec == Init /\ [][Next]_vars

(***************************************************************************)
(* Vocabulary of the properties.                                           *)
(***************************************************************************)

\* The characters of the input that the current tag spans.
Verbatim == Slice(html_content, match.start, match.end)

\* The last element of a non-empty sequence.
Last(seq) == seq[Len(seq)]

\* The current tag is the last tag of the input.
IsLastTag == SearchFrom(html_content, match.end) = -1

\* The names on a stack, bottom first.
Names(stack) == [ i \in 1..Len(stack) |-> stack[i][1] ]

\* The kinds of the errors of a list, and the tag names they carry.
Kinds(errs) == [ i \in 1..Len(errs) |-> errs[i].message.kind ]

Args(errs) == [ i \in 1..Len(errs) |-> errs[i].message.args ]

(***************************************************************************)
(* C1. Mismatch transition.                                                *)
(***************************************************************************)

\* The part of the transition on which the claim and the code agree: one
\* Mismatch error at the current line (expected the top, got the end tag),
\* then "</top>" and the end tag verbatim appended to the output.
C1_RecordsAndRepairs ==
    /\ parser'.errors = Append(parser.errors,
            [ line |-> parser.line_number, type |-> "error",
              message |-> [ kind |-> "Mismatch",
                            args |-> <<Top(parser.tag_stack)[1], match.tag_name>> ] ])
    /\ parser'.corrected_html =
            parser.corrected_html
                \o << <<"<", "/">> \o Top(parser.tag_stack)[1] \o <<">">>, Verbatim >>
    /\ parser'.line_number = parser.line_number

\* C1 as claimed: on a mismatch the engine records one Mismatch error,
\* appends "</top>" and the end tag, pops the stack and pushes the name of
\* the end tag, so the stack depth is unchanged and its top is that name.
C1_MismatchPushesName ==
    [][HandleMismatch =>
        /\ C1_RecordsAndRepairs
        /\ Len(parser'.tag_stack) = Len(parser.tag_stack)
        /\ Top(parser'.tag_stack)[1] = match.tag_name]_vars

\* C1 as amended: on a mismatch the engine records one Mismatch error,
\* appends "</top>" and the end tag, and pops the stack; it pushes nothing,
\* so the stack is the previous stack without its top entry.
C1_MismatchPopsOnly ==
    [][HandleMismatch =>
        /\ C1_RecordsAndRepairs
        /\ Len(parser'.tag_stack) = Len(parser.tag_stack) - 1
        /\ \A i \in 1..Len(parser'.tag_stack) :
                parser'.tag_stack[i] = parser.tag_stack[i]]_vars

\* A mismatch has just been handled, and the entry now on top of the stack
\* does not carry the name of the end tag.
C1_Witness ==
    /\ pc = "scan"
    /\ pos = match.end
    /\ IsEndTag(match)
    /\ parser.errors /= <<>>
    /\ Last(parser.errors).message
            = [ kind |-> "Mismatch", args |-> << <<"a">>, <<"b">> >> ]
    /\ html_content = StartTagText(<<"a">>) \o StartTagText(<<"a">>) \o EndTagText(<<"b">>)
    /\ Names(parser.tag_stack) = << <<"a">> >>

(***************************************************************************)
(* C2. The input <x><y>text</x>.                                           *)
(***************************************************************************)

\* C2: for every input <x><y>text</x> with x /= y, compile records exactly
\* one error, Mismatch (expected </y>, got </x>), and the corrected output
\* is exactly <x><y>text</y></x>, with no further closing tag appended.
C2_MismatchRepairOutput ==
    \A x \in TagNames, y \in TagNames, t \in TextPieces :
        ( /\ pc = "done"
          /\ x /= y
          /\ html_content = StartTagText(x) \o StartTagText(y) \o t \o EndTagText(x) )
        => /\ Kinds(result.errors) = <<"Mismatch">>
           /\ Args(result.errors) = << <<y, x>> >>
           /\ result.corrected_html
                = StartTagText(x) \o StartTagText(y) \o t \o EndTagText(y) \o EndTagText(x)

(***************************************************************************)
(* C3. A mismatch at the last tag of the input.                            *)
(***************************************************************************)

\* The input is <x></y> with x /= y.
C3_Shape(x, y) ==
    /\ x /= y
    /\ html_content = StartTagText(x) \o EndTagText(y)

\* C3 as claimed: when the last tag of the input is an end tag handled as a
\* mismatch, its name is on the stack when the input is exhausted, and the
\* flush records an UnclosedTag error for it after the Mismatch error; for
\* <x></y> the error list is exactly [Mismatch, UnclosedTag for y].
C3_DoubleReport ==
    [][ /\ (HandleMismatch /\ IsLastTag) =>
              \E i \in 1..Len(parser'.tag_stack) :
                  parser'.tag_stack[i][1] = match.tag_name
        /\ \A x \in TagNames, y \in TagNames :
              (CompileReturn /\ C3_Shape(x, y)) =>
                  /\ Kinds(result'.errors) = <<"Mismatch", "UnclosedTag">>
                  /\ Args(result'.errors) = << <<x, y>>, <<y>> >> ]_vars

\* C3 as amended: when the last tag of the input is an end tag handled as a
\* mismatch, its name is not pushed: the stack at the end of the input is the
\* previous stack without its top, and the errors of the result are the
\* errors up to and including the Mismatch followed by one UnclosedTag error
\* per remaining entry, innermost first; for <x></y> the error list is
\* exactly [Mismatch].
C3_SingleReport ==
    [][ /\ (HandleMismatch /\ IsLastTag) =>
              /\ Names(parser'.tag_stack)
                    = SubSeq(Names(parser.tag_stack), 1, Len(parser.tag_stack) - 1)
              /\ Kinds(CompileOf(html_content).errors)
                    = Kinds(parser.errors) \o <<"Mismatch">>
                        \o [ i \in 1..(Len(parser.tag_stack) - 1) |-> "UnclosedTag" ]
              /\ Args(CompileOf(html_content).errors)
                    = Args(parser.errors)
                        \o << <<Top(parser.tag_stack)[1], match.tag_name>> >>
                        \o [ i \in 1..(Len(parser.tag_stack) - 1) |->
                                << parser.tag_stack[Len(parser.tag_stack) - i][1] >> ]
        /\ \A x \in TagNames, y \in TagNames :
              (CompileReturn /\ C3_Shape(x, y)) =>
                  /\ Kinds(result'.errors) = <<"Mismatch">>
                  /\ Args(result'.errors) = << <<x, y>> >> ]_vars

\* compile has returned for <a></b> with the Mismatch error alone.
C3_Witness ==
    /\ pc = "done"
    /\ C3_Shape(<<"a">>, <<"b">>)
    /\ IsEndTag(match)
    /\ Kinds(result.errors) = <<"Mismatch">>
    /\ parser.tag_stack = <<>>

(***************************************************************************)
(* C4. Balanced inputs.                                                    *)
(***************************************************************************)

\* A sequence of pieces generated by
\*   B ::= empty | text B | self-closing-tag B | <n> B </n> B
RECURSIVE Balanced(_)
Balanced(ps) ==
    IF ps = <<>> THEN TRUE
    ELSE \/ /\ Head(ps) \in TextPieces \cup SelfClosingPieces
            /\ Balanced(Tail(ps))
         \/ \E n \in TagNames, k \in 2..Len(ps) :
                /\ Head(ps) = StartTagText(n)
                /\ ps[k] = EndTagText(n)
                /\ Balanced(SubSeq(ps, 2, k - 1))
                /\ Balanced(SubSeq(ps, k + 1, Len(ps)))

\* The inputs written as a balanced sequence of tags and "<"-free text.
WellFormedInputs == { Join(ps) : ps \in { q \in PieceSeqs : Balanced(q) } }

\* C4: for every input in which each non-self-closing start tag is matched
\* by a correctly nested end tag of the same name, compile returns no error
\* and a corrected output equal to the input, character for character.
C4_BalancedRoundTrip ==
    (pc = "done" /\ html_content \in WellFormedInputs)
        => /\ result.errors = <<>>
           /\ result.corrected_html = html_content

\* compile has returned for a balanced input with a self-closing tag inside
\* a matched pair and text after the last tag, and the output is the input.
C4_Witness ==
    /\ pc = "done"
    /\ html_content \in WellFormedInputs
    /\ \E t \in TextPieces, sc \in SelfClosingPieces, n \in TagNames :
            html_content = StartTagText(n) \o sc \o EndTagText(n) \o t
    /\ result.corrected_html = html_content

(***************************************************************************)
(* C5. Compiling the corrected output again.                               *)
(***************************************************************************)

\* C5: for every input, compiling the corrected output again yields no
\* error: compile(compile(text).corrected_html).errors is empty.
C5_CorrectedOutputIsClean ==
    pc = "done" => NoErrors(CompileOf(result.corrected_html))

(***************************************************************************)
(* C6. End tag on an empty stack.                                          *)
(***************************************************************************)

\* C6: an end tag that arrives while the stack is empty records exactly one
\* UnmatchedClose error carrying the current line, is appended verbatim to
\* the output and leaves the stack empty; the loop goes on after the tag.
C6_UnmatchedClose ==
    [][(pc = "tag" /\ pc' = "scan" /\ IsEndTag(match) /\ parser.tag_stack = <<>>) =>
        /\ parser'.errors = Append(parser.errors,
                [ line |-> parser.line_number, type |-> "error",
                  message |-> [ kind |-> "UnmatchedClose", args |-> <<match.tag_name>> ] ])
        /\ parser'.corrected_html = Append(parser.corrected_html, Verbatim)
        /\ parser'.tag_stack = <<>>
        /\ parser'.line_number = parser.line_number
        /\ pos' = match.end
        /\ html_content' = html_content]_vars

\* An unmatched end tag on line 2 has just been handled and another tag
\* follows it.
C6_Witness ==
    /\ pc = "scan"
    /\ pos = match.end
    /\ IsEndTag(match)
    /\ parser.tag_stack = <<>>
    /\ Kinds(parser.errors) = <<"UnmatchedClose">>
    /\ parser.errors[1].line = 2
    /\ Last(parser.corrected_html) = Verbatim
    /\ SearchFrom(html_content, pos) /= -1

(***************************************************************************)
(* C7. The flush of the unclosed tags.                                     *)
(***************************************************************************)

\* The corrector when the input is exhausted, before the flush.
C7_BeforeFlush == ParseLoop(NewCorrector, html_content, 0)

\* C7: for a residual stack [t1, ..., tn] at the end of the input, compile
\* appends </tn>, ..., </t1> in that order to the end of the output and
\* records exactly n UnclosedTag errors in the same order, one per entry.
C7_FlushInnermostFirst ==
    pc = "done" =>
        LET q == C7_BeforeFlush
            n == Len(q.tag_stack)
            t(i) == q.tag_stack[n + 1 - i][1]
        IN  /\ parser.tag_stack = <<>>
            /\ parser.corrected_html
                 = q.corrected_html \o [ i \in 1..n |-> <<"<", "/">> \o t(i) \o <<">">> ]
            /\ parser.errors
                 = q.errors \o [ i \in 1..n |->
                        [ line |-> q.line_number, type |-> "error",
                          message |-> [ kind |-> "UnclosedTag", args |-> <<t(i)>> ] ] ]
            /\ result.corrected_html = Join(parser.corrected_html)
            /\ result.errors = parser.errors

\* compile has returned for <a><b>a: UnclosedTag for b, then for a.
C7_Witness ==
    /\ pc = "done"
    /\ html_content = StartTagText(<<"a">>) \o StartTagText(<<"b">>) \o <<"a">>
    /\ Names(C7_BeforeFlush.tag_stack) = << <<"a">>, <<"b">> >>
    /\ Kinds(result.errors) = <<"UnclosedTag", "UnclosedTag">>
    /\ Args(result.errors) = << << <<"b">> >>, << <<"a">> >> >>
    /\ result.corrected_html
         = html_content \o EndTagText(<<"b">>) \o EndTagText(<<"a">>)

(***************************************************************************)
(* C8. Self-closing start tags.                                            *)
(***************************************************************************)

\* A start tag whose content between the name and ">" ends with "/",
\* trailing white space ignored.
C8_EndsWithSlash(m) ==
    /\ m.closing_slash = <<>>
    /\ \E k \in 1..Len(m.rest) :
            /\ m.rest[k] = "/"
            /\ \A j \in (k + 1)..Len(m.rest) : m.rest[j] \in WhiteSpace

\* The names of the start tags of a text that are not self-closing.
C8_OpeningNames(text) ==
    LET tags == FindAll(text, 0)
    IN  { tags[j].tag_name :
            j \in { i \in 1..Len(tags) :
                        tags[i].closing_slash = <<>> /\ ~C8_EndsWithSlash(tags[i]) } }

\* Handling such a tag appends it verbatim and changes nothing else.
C8_Frame ==
    (pc = "tag" /\ pc' = "scan" /\ C8_EndsWithSlash(match)) =>
        /\ parser'.corrected_html = Append(parser.corrected_html, Verbatim)
        /\ parser'.tag_stack = parser.tag_stack
        /\ parser'.errors = parser.errors
        /\ parser'.line_number = parser.line_number

\* No stack entry, UnclosedTag error or expected tag of a Mismatch error of
\* corrector p carries a name that only self-closing start tags of the
\* text have.
C8_NeverOpened(p, text) ==
    LET opening == C8_OpeningNames(text)
    IN  /\ \A i \in 1..Len(p.tag_stack) : p.tag_stack[i][1] \in opening
        /\ \A i \in 1..Len(p.errors) :
                p.errors[i].message.kind \in {"UnclosedTag", "Mismatch"}
                    => p.errors[i].message.args[1] \in opening

\* C8: a self-closing start tag is appended verbatim to the output and
\* leaves the stack, the error list and the line counter unchanged; it
\* never causes an UnclosedTag error and is never the expected tag of a
\* Mismatch error (no step that changes the stack or the error list leaves
\* in them a name that only self-closing tags have).
C8_SelfClosingExemption ==
    [][ /\ C8_Frame
        /\ (parser'.tag_stack /= parser.tag_stack \/ parser'.errors /= parser.errors)
                => C8_NeverOpened(parser', html_content') ]_vars

\* <a> and then the self-closing <b/ > with a newline inside have been
\* handled: b is not on the stack and the line counter is still 1; the
\* flush has then reported a alone.
C8_Witness ==
    /\ pc = "done"
    /\ html_content = StartTagText(<<"a">>) \o <<"<", "b", "/", "\n", ">">>
    /\ C8_EndsWithSlash(match)
    /\ match.tag_name = <<"b">>
    /\ parser.line_number = 1
    /\ Args(parser.errors) = << << <<"a">> >> >>
    /\ result.corrected_html = html_content \o EndTagText(<<"a">>)

(***************************************************************************)
(* C9. validate_html and compile.                                          *)
(***************************************************************************)

\* C9: validate_html(text) returns true if and only if compile(text)
\* returns an empty error list.
C9_ValidateAgreesWithCompile ==
    (pc = "done" /\ call = "validate_html")
        => (valid <=> CompileOf(html_content).errors = <<>>)

\* validate_html has returned False for an input with an error.
C9_Witness ==
    /\ pc = "done"
    /\ call = "validate_html"
    /\ valid = FALSE
    /\ Kinds(CompileOf(html_content).errors) = <<"Mismatch", "UnclosedTag">>

(***************************************************************************)
(* C10. Totality.                                                          *)
(***************************************************************************)

\* What is left to do in a call at position at, with offset from in the
\* text and the stack of corrector p: text to scan, entries to flush.
C10_Measure(at, p, text, from) ==
    CASE at = "idle"     -> 5
      [] at = "scan"     -> 3 * (Len(text) - from) + Len(p.tag_stack) + 4
      [] at = "tag"      -> 3 * (Len(text) - from) + Len(p.tag_stack) + 3
      [] at = "flush"    -> Len(p.tag_stack) + 2
      [] at = "validate" -> 1
      [] at = "done"     -> 0

\* The number of branches of the loop body that apply to tag m.
C10_Branches(p, m) ==
    Cardinality({ b \in {"self-closing", "start", "unmatched", "mismatch", "close"} :
        \/ b = "self-closing" /\ IsSelfClosing(m)
        \/ b = "start"        /\ IsStartTag(m)
        \/ b = "unmatched"    /\ IsUnmatchedClose(p, m)
        \/ b = "mismatch"     /\ IsMismatch(p, m)
        \/ b = "close"        /\ IsCorrectClose(p, m) })

\* No failure: a call that has not returned has a next step (the loop
\* either finds a non-empty tag within the text or ends, exactly one branch
\* handles a tag, the stack is read and popped only when it is not empty),
\* and a call that has returned has a result with an output and an error
\* list and has left the stack empty.
C10_NoFailure(at, p, text, from, m, res) ==
    /\ at \in {"idle", "scan", "tag", "flush", "validate", "done"}
    /\ C10_Measure(at, p, text, from) \in Nat
    /\ at = "scan" =>
            LET i == SearchFrom(text, from)
            IN  i /= -1 =>
                    /\ from <= i
                    /\ i < MatchObject(text, i).end
                    /\ MatchObject(text, i).end <= Len(text)
    /\ at = "tag" =>
            /\ C10_Branches(p, m) = 1
            /\ (IsEndTag(m) /\ ~IsUnmatchedClose(p, m)) => Len(p.tag_stack) > 0
    /\ at = "done" =>
            /\ DOMAIN res = {"corrected_html", "errors"}
            /\ res = CompileResult(p)
            /\ p.tag_stack = <<>>

\* Every step of a running call leaves less to do.
C10_Progress ==
    pc /= "idle" =>
        C10_Measure(pc', parser', html_content', pos')
            < C10_Measure(pc, parser, html_content, pos)

\* C10: for every input compile terminates and returns a result with a
\* corrected output and an error list; no token sequence leads to a failure
\* state, and the flush loop terminates.
C10_Totality ==
    [][ /\ C10_NoFailure(pc', parser', html_content', pos', match', result')
        /\ C10_Progress ]_vars

\* compile has returned for a malformed input that needed every repair:
\* an unmatched end tag, a mismatch and a flush.
C10_Witness ==
    /\ pc = "done"
    /\ call = "compile"
    /\ Kinds(result.errors) = <<"UnmatchedClose", "Mismatch", "UnclosedTag">>
    /\ result.corrected_html /= html_content

-----------------------------------------------------------------------------
(* Several compile calls on one HTMLCompiler object.                       *)

MaxCallPieces == 2

\* Pieces that reach every branch of parse within two pieces.
CallPieces ==
    { StartTagText(<<"a">>), EndTagText(<<"a">>), EndTagText(<<"b">>),
      <<"<", "b", "/", "\n", ">">>, <<"\n">> }

CallInputs ==
    { Join(ps) : ps \in UNION { [1..n -> CallPieces] : n \in 0..MaxCallPieces } }

\* compile is called on a new object or after an earlier call has returned.
CallCompile ==
    /\ pc \in {"idle", "done"}
    /\ \E text \in CallInputs : EnterCompile(text, "compile")

NextCalls ==
    \/ CallCompile
    \/ NextTag
    \/ HandleSelfClosing
    \/ HandleStartTag
    \/ HandleUnmatchedClose
    \/ HandleMismatch
    \/ HandleCorrectClose
    \/ HandleRemaining
    \/ FlushStep
    \/ CompileReturn

SpecCalls == Init /\ [][NextCalls]_vars

\* The dictionary of the earlier call as the caller reads it: its 'errors'
\* is a list object, read through to the corrector that owns it.
Seen(prev, live, p) ==
    [ corrected_html |-> prev.corrected_html,
      errors |-> IF live THEN p.errors ELSE prev.errors ]

(* C11: no cross-call state leakage.  In any sequence of compile calls on  *)
(* one compiler object, every call starts from an empty stack, an empty    *)
(* error list, an empty output buffer and line counter 1; the result of    *)
(* every call is what a new compiler returns for the same text; and no     *)
(* step of a later call changes the result returned by an earlier call.    *)
C11_NoLeakage ==
    [][ /\ (pc \in {"idle", "done"} /\ pc' = "scan") =>
              /\ parser'.tag_stack = <<>>
              /\ parser'.errors = <<>>
              /\ parser'.corrected_html = <<>>
              /\ parser'.line_number = 1
              /\ (pc = "done" =>
                     Seen(previous', previous_live', parser') = result)
        /\ (pc \notin {"idle", "done"}) =>
              Seen(previous', previous_live', parser')
                  = Seen(previous, previous_live, parser)
        /\ (pc' = "done") => result' = CompileOf(html_content')
      ]_vars

\* A call without errors has returned after a call that recorded errors.
C11_Witness ==
    /\ pc = "done"
    /\ previous.errors # <<>>
    /\ previous.corrected_html # <<>>
    /\ result.errors = <<>>
    /\ result.corrected_html # <<>>

-----------------------------------------------------------------------------
(* Line numbers of the errors.                                             *)

\* The newline characters of text[0:upto] that lie outside every tag.
TextNewlines(text, upto) ==
    LET tags == FindAll(text, 0)
    IN  Cardinality({ i \in 0..(upto - 1) :
            /\ At(text, i) = "\n"
            /\ \A k \in 1..Len(tags) : i < tags[k].start \/ i >= tags[k].end })

(* C12: an UnmatchedClose or Mismatch error carries as line 1 plus the     *)
(* number of newline characters in the text runs before the erroring end   *)
(* tag; the tags before it, even those whose source contains a newline,    *)
(* contribute nothing.                                                     *)
C12_EndTagErrorLine ==
    [][ (pc = "tag" /\ pc' = "scan"
            /\ Len(parser'.errors) = Len(parser.errors) + 1) =>
          /\ Last(Kinds(parser'.errors)) \in {"UnmatchedClose", "Mismatch"}
          /\ Last(parser'.errors).line
                = 1 + TextNewlines(html_content, match.start)
      ]_vars

\* An end tag in error on line 2, after a tag that contains a newline and a
\* text run of one newline.
C12_Witness ==
    /\ html_content = Join(<< <<"<", "b", "/", "\n", ">">>, <<"\n">>,
                              EndTagText(<<"a">>) >>)
    /\ pc = "scan"
    /\ Kinds(parser.errors) = <<"UnmatchedClose">>
    /\ parser.errors[1].line = 2

(* C13: every UnclosedTag error carries the final value of the line        *)
(* counter, and that value is 1 plus the number of newline characters in   *)
(* all text runs of the input, the run after the last tag included.        *)
C13_UnclosedTagLine ==
    (pc = "done") =>
        \A i \in 1..Len(result.errors) :
            Kinds(result.errors)[i] = "UnclosedTag" =>
                /\ result.errors[i].line = parser.line_number
                /\ result.errors[i].line
                      = 1 + TextNewlines(html_content, Len(html_content))

-----------------------------------------------------------------------------
(* The stack and the output.                                               *)

\* The start tags of a tag sequence left open under strict nesting: a start
\* tag that is not self-closing opens, an end tag closes the innermost open
\* tag when it carries its name and closes nothing otherwise.
RECURSIVE OpenUnderNesting(_, _)
OpenUnderNesting(tags, open) ==
    IF tags = <<>> THEN open
    ELSE LET m == Head(tags)
         IN  OpenUnderNesting(Tail(tags),
                 IF m.closing_slash = <<>>
                 THEN IF C8_EndsWithSlash(m) THEN open
                      ELSE Append(open, m.tag_name)
                 ELSE IF open /= <<>> /\ Last(open) = m.tag_name
                      THEN SubSeq(open, 1, Len(open) - 1)
                      ELSE open)

(* C14: after every processed token the stack, read bottom to top, is the  *)
(* sequence of the start tags appended to the output that are not          *)
(* self-closing and that no closing tag after them closes under strict     *)
(* nesting; no entry names a tag the output has closed or never opened.    *)
C14_StackIsOpenOutput ==
    (pc \in {"scan", "tag"}) =>
        Names(parser.tag_stack)
            = OpenUnderNesting(FindAll(Join(parser.corrected_html), 0), <<>>)

(* C15: monotone error lines.  In every state of a compile call and in the *)
(* returned result the line fields of the error list, read in order, are   *)
(* non-decreasing.                                                         *)
C15_MonotoneLines ==
    /\ \A i, j \in 1..Len(parser.errors) :
            i < j => parser.errors[i].line <= parser.errors[j].line
    /\ \A i, j \in 1..Len(result.errors) :
            i < j => result.errors[i].line <= result.errors[j].line

\* A result with errors on line 1, line 2 and line 2 again.
C15_Witness ==
    /\ pc = "done"
    /\ Len(result.errors) = 3
    /\ result.errors[1].line = 1
    /\ result.errors[2].line = 2
    /\ Kinds(result.errors)[3] = "UnclosedTag"

-----------------------------------------------------------------------------
(* The accumulators.                                                       *)

IsPrefix(a, b) == Len(a) <= Len(b) /\ SubSeq(b, 1, Len(a)) = a

(* C16: append-only accumulators.  Across every step of a compile call the *)
(* output buffer before the step is a prefix of the buffer after it, and   *)
(* so is the error list: nothing is removed, reordered or edited.  The     *)
(* returned output is the concatenation of the fragments in append order.  *)
C16_AppendOnly ==
    [][ (pc /= "idle") =>
          /\ IsPrefix(parser.corrected_html, parser'.corrected_html)
          /\ IsPrefix(parser.errors, parser'.errors)
          /\ (pc' = "done" =>
                /\ result'.corrected_html = Join(parser'.corrected_html)
                /\ result'.errors = parser'.errors)
      ]_vars

\* A returned output of four fragments with errors of two kinds.
C16_Witness ==
    /\ pc = "done"
    /\ Len(parser.corrected_html) = 4
    /\ Kinds(parser.errors) = <<"UnmatchedClose", "UnclosedTag">>
    /\ result.corrected_html = Join(parser.corrected_html)

-----------------------------------------------------------------------------
(* Where a tag starts.                                                     *)

\* "<" at offset i, at once an optional "/", at once a word character, and
\* a ">" further on.
C17_ClaimedTagAt(s, i) ==
    /\ i < Len(s)
    /\ At(s, i) = "<"
    /\ LET n == IF i + 1 < Len(s) /\ At(s, i + 1) = "/" THEN i + 2 ELSE i + 1
       IN  /\ n < Len(s)
           /\ At(s, n) \in WordChars
           /\ \E g \in (n + 1)..(Len(s) - 1) : At(s, g) = ">"

\* The same with any run of white space between "<" and the optional "/".
C17_TagAt(s, i) ==
    /\ i < Len(s)
    /\ At(s, i) = "<"
    /\ \E j \in (i + 1)..(Len(s) - 1) :
          /\ \A k \in (i + 1)..(j - 1) : At(s, k) \in WhiteSpace
          /\ LET n == IF At(s, j) = "/" THEN j + 1 ELSE j
             IN  /\ n < Len(s)
                 /\ At(s, n) \in WordChars
                 /\ \E g \in (n + 1)..(Len(s) - 1) : At(s, g) = ">"

(* C17 as claimed: a "<" starts a tag only when it is immediately followed *)
(* by an optional "/" and then at least one word character, up to the      *)
(* next ">"; every other "<", such as one followed by white space, is      *)
(* literal text.                                                           *)
C17_TagOnlyAtClaimedPattern ==
    (pc = "tag") => C17_ClaimedTagAt(html_content, match.start)

(* C17: the tokenizer takes as the next tag the first "<" at or after the  *)
(* end of the last tag that is followed by optional white space, an        *)
(* optional "/", at least one word character and, further on, a ">".       *)
(* Everything before it, and everything after the last tag, is literal     *)
(* text: it is appended verbatim, the stack and the error list stay as     *)
(* they are.                                                               *)
C17_TagBoundary ==
    [][ (pc = "scan") =>
          LET upto == IF pc' = "tag" THEN match'.start ELSE Len(html_content)
          IN  /\ (pc' = "tag") => C17_TagAt(html_content, match'.start)
              /\ \A i \in pos..(upto - 1) : ~C17_TagAt(html_content, i)
              /\ parser'.tag_stack = parser.tag_stack
              /\ parser'.errors = parser.errors
              /\ parser'.corrected_html =
                    IF upto > pos
                    THEN Append(parser.corrected_html,
                                Slice(html_content, pos, upto))
                    ELSE parser.corrected_html
      ]_vars

\* A tag whose "<" is followed by white space has been found.
C17_Witness ==
    /\ pc = "tag"
    /\ At(html_content, match.start + 1) \in WhiteSpace
    /\ match.tag_name = <<"a">>

-----------------------------------------------------------------------------
(* format_html.                                                            *)

MaxFormatPieces == 3

FormatInputs ==
    { Join(ps) : ps \in UNION { [1..n -> Pieces] : n \in 0..MaxFormatPieces } }

\* The pattern "<", one or more characters other than ">", ">" matches at
\* offset i.
FormatTagAt(s, i) ==
    /\ i + 1 < Len(s)
    /\ At(s, i) = "<"
    /\ At(s, i + 1) /= ">"
    /\ FindGt(s, i + 1) < Len(s)

\* Offset of the first match at or after from, or -1.
RECURSIVE FormatSearch(_, _)
FormatSearch(s, from) ==
    IF from >= Len(s) THEN -1
    ELSE IF FormatTagAt(s, from) THEN from
    ELSE FormatSearch(s, from + 1)

\* tag_pattern.split: the text before each match and the match, in turn,
\* and the text after the last match.
RECURSIVE SplitParts(_, _)
SplitParts(s, from) ==
    LET i == FormatSearch(s, from)
    IN  IF i = -1 THEN <<Slice(s, from, Len(s))>>
        ELSE LET end == FindGt(s, i + 1) + 1
             IN  <<Slice(s, from, i), Slice(s, i, end)>> \o SplitParts(s, end)

\* tag_pattern.fullmatch(part)
FullMatchTag(part) ==
    /\ Len(part) >= 3
    /\ part[1] = "<"
    /\ part[Len(part)] = ">"
    /\ \A k \in 2..(Len(part) - 1) : part[k] /= ">"

\* The part starts with "<", white space, "/".
IsClosingPart(part) ==
    LET j == SkipClass(part, 1, WhiteSpace)
    IN  j < Len(part) /\ At(part, j) = "/"

\* The part starts with "<", white space and a name that is not followed,
\* after characters other than ">", by "/>".  A shorter name only widens
\* what the lookahead sees, so the whole name decides.
IncreasesIndent(part) ==
    LET ns == SkipClass(part, 1, WhiteSpace)
        ne == SkipClass(part, ns, WordChars)
    IN  /\ ne > ns
        /\ ~ \E q \in ne..(Len(part) - 2) :
                /\ At(part, q) = "/"
                /\ At(part, q + 1) = ">"
                /\ \A k \in ne..(q - 1) : At(part, k) /= ">"

\* part.splitlines()
RECURSIVE SplitLines(_)
SplitLines(s) ==
    IF s = <<>> THEN <<>>
    ELSE LET n == CHOOSE k \in 1..(Len(s) + 1) :
                     /\ k = Len(s) + 1 \/ s[k] = "\n"
                     /\ \A j \in 1..(k - 1) : s[j] /= "\n"
         IN  <<SubSeq(s, 1, n - 1)>> \o SplitLines(SubSeq(s, n + 1, Len(s)))

\* "    " * indent
Indentation(indent) == [ i \in 1..(4 * indent) |-> " " ]

\* The lines of a text part.
RECURSIVE TextLines(_, _)
TextLines(lines, indent) ==
    IF lines = <<>> THEN <<>>
    ELSE (IF Strip(Head(lines)) /= <<>>
          THEN <<Indentation(indent) \o Strip(Head(lines))>>
          ELSE <<>>) \o TextLines(Tail(lines), indent)

\* The loop over the parts: the formatted lines.
RECURSIVE FormatLoop(_, _)
FormatLoop(parts, indent) ==
    IF parts = <<>> THEN <<>>
    ELSE LET part == Head(parts)
         IN  IF Strip(part) = <<>> THEN FormatLoop(Tail(parts), indent)
             ELSE IF FullMatchTag(part)
             THEN LET at == IF IsClosingPart(part)
                            THEN (IF indent - 1 > 0 THEN indent - 1 ELSE 0)
                            ELSE indent
                  IN  <<Indentation(at) \o part>>
                      \o FormatLoop(Tail(parts),
                             IF IncreasesIndent(part) THEN at + 1 ELSE at)
             ELSE TextLines(SplitLines(part), indent)
                  \o FormatLoop(Tail(parts), indent)

\* "\n".join(lines)
RECURSIVE JoinLines(_)
JoinLines(lines) ==
    IF lines = <<>> THEN <<>>
    ELSE IF Len(lines) = 1 THEN lines[1]
    ELSE lines[1] \o <<"\n">> \o JoinLines(Tail(lines))

\* HTMLCompiler.format_html(text)
FormatOf(text) == JoinLines(FormatLoop(SplitParts(text, 0), 0))

\* format_html(text) is called and returns.
FormatHtml ==
    /\ pc = "idle"
    /\ \E text \in FormatInputs :
          /\ html_content' = text
          /\ formatted' = FormatOf(text)
    /\ pc' = "formatted"
    /\ call' = "format_html"
    /\ UNCHANGED <<parser, pos, match, result, valid, previous, previous_live>>

NextFormat == FormatHtml

SpecFormat == Init /\ [][NextFormat]_vars

\* A start tag part that compile would push: it has a name, and what stands
\* before its ">" does not end with "/" once trailing white space is dropped.
C18_OpensByCompileRule(part) ==
    LET ns == SkipClass(part, 1, WhiteSpace)
        ne == SkipClass(part, ns, WordChars)
        content == SubSeq(part, 2, Len(part) - 1)
    IN  /\ ne > ns
        /\ ~ \E k \in 1..Len(content) :
                /\ content[k] = "/"
                /\ \A j \in (k + 1)..Len(content) : content[j] \in WhiteSpace

\* The lines of the claim: those of format_html, with the depth incremented
\* after the start tags that compile would push.
RECURSIVE C18_ClaimedLoop(_, _)
C18_ClaimedLoop(parts, depth) ==
    IF parts = <<>> THEN <<>>
    ELSE LET part == Head(parts)
         IN  IF Strip(part) = <<>> THEN C18_ClaimedLoop(Tail(parts), depth)
             ELSE IF FullMatchTag(part)
             THEN LET at == IF IsClosingPart(part)
                            THEN (IF depth - 1 > 0 THEN depth - 1 ELSE 0)
                            ELSE depth
                  IN  <<Indentation(at) \o part>>
                      \o C18_ClaimedLoop(Tail(parts),
                             IF C18_OpensByCompileRule(part) THEN at + 1 ELSE at)
             ELSE TextLines(SplitLines(part), depth)
                  \o C18_ClaimedLoop(Tail(parts), depth)

(* C18: pretty-print indentation.  format_html puts every non-blank        *)
(* fragment on a line of its own behind 4 x depth spaces; the depth starts *)
(* at 0, is decremented (not below 0) before a closing tag and incremented *)
(* after a start tag exactly when the tag is not self-closing by the rule  *)
(* of compile; the engine state is neither read nor written.               *)
C18_Indentation ==
    (pc = "formatted") =>
        /\ formatted = JoinLines(C18_ClaimedLoop(SplitParts(html_content, 0), 0))
        /\ parser = NewCorrector

-----------------------------------------------------------------------------
(* Pushes and pops.                                                        *)

\* How often a value occurs in a sequence.
Count(seq, kind) == Cardinality({ i \in 1..Len(seq) : seq[i] = kind })

\* The start tags of a tag sequence that are not self-closing, and its end
\* tags.
C19_Opening(tags) ==
    Cardinality({ i \in 1..Len(tags) :
        tags[i].closing_slash = <<>> /\ ~C8_EndsWithSlash(tags[i]) })

C19_Closing(tags) ==
    Cardinality({ i \in 1..Len(tags) : tags[i].closing_slash /= <<>> })

\* The end tags that arrive at depth 0, the depth going up by one with a
\* start tag that is not self-closing and down by one with any other end tag.
RECURSIVE C19_ArrivalsOnEmpty(_, _)
C19_ArrivalsOnEmpty(tags, depth) ==
    IF tags = <<>> THEN 0
    ELSE LET m == Head(tags)
         IN  IF m.closing_slash = <<>>
             THEN C19_ArrivalsOnEmpty(Tail(tags),
                      IF C8_EndsWithSlash(m) THEN depth ELSE depth + 1)
             ELSE IF depth = 0
                  THEN 1 + C19_ArrivalsOnEmpty(Tail(tags), 0)
                  ELSE C19_ArrivalsOnEmpty(Tail(tags), depth - 1)

(* C19: push/pop conservation.  Only start tags that are not self-closing  *)
(* push, and every entry pushed is popped exactly once, by a correct       *)
(* close, by a mismatch repair or by the flush: at return the stack is     *)
(* empty and the start tags of the input that are not self-closing are as  *)
(* many as the end tags matched without error plus the Mismatch errors     *)
(* plus the UnclosedTag errors.  The UnmatchedClose errors are as many as  *)
(* the end tags that arrived on an empty stack.                            *)
C19_Conservation ==
    (pc = "done") =>
        LET tags == FindAll(html_content, 0)
            kinds == Kinds(result.errors)
            unmatched == Count(kinds, "UnmatchedClose")
            mismatch == Count(kinds, "Mismatch")
            unclosed == Count(kinds, "UnclosedTag")
            matched == C19_Closing(tags) - unmatched - mismatch
        IN  /\ parser.tag_stack = <<>>
            /\ matched >= 0
            /\ C19_Opening(tags) = matched + mismatch + unclosed
            /\ unmatched = C19_ArrivalsOnEmpty(tags, 0)

\* A result after an unmatched close, a mismatch and a flushed entry.
C19_Witness ==
    /\ pc = "done"
    /\ Kinds(result.errors) = <<"UnmatchedClose", "Mismatch", "UnclosedTag">>
    /\ C19_Opening(FindAll(html_content, 0)) = 2

-----------------------------------------------------------------------------
(* The end of a call.                                                      *)

(* C20: terminal ordering.  The UnclosedTag errors are a contiguous suffix *)
(* of the error list: no UnmatchedClose or Mismatch error follows the      *)
(* first of them.  The output ends with their synthetic closing tags, one  *)
(* per error and in the order of the errors, so no fragment of the input   *)
(* is appended after the first of these tags.  They are recorded only      *)
(* once the input is exhausted, and the stack is empty when compile        *)
(* returns.                                                                *)
C20_TerminalOrdering ==
    LET errs == parser.errors
        out == parser.corrected_html
        n == Len(errs)
        k == Count(Kinds(errs), "UnclosedTag")
    IN  /\ \A i \in 1..n : (Kinds(errs)[i] = "UnclosedTag") <=> (i > n - k)
        /\ Len(out) >= k
        /\ \A j \in 1..k :
              out[Len(out) - k + j] = ClosingTag(Args(errs)[n - k + j][1])
        /\ (k > 0) => pc \in {"flush", "validate", "done"}
        /\ (pc \in {"validate", "done"}) =>
              /\ parser.tag_stack = <<>>
              /\ result = CompileResult(parser)

\* A call has returned after a mismatch and two flushed entries.
C20_Witness ==
    /\ pc = "done"
    /\ Kinds(result.errors) = <<"Mismatch", "UnclosedTag", "UnclosedTag">>

====
